---- MODULE Spec2Model ----
(***************************************************************************)
(* Model of seqkit's root command (cmd/root.go): the load-time init() that *)
(* registers the help groups, resolves the default of --threads from the   *)
(* host CPU count and SEQKIT_THREADS and declares the persistent flags;    *)
(* the usage template's subcommand block; and Execute(), which runs the    *)
(* command tree once and turns a returned error into a printed message and *)
(* os.Exit(-1).                                                            *)
(*                                                                         *)
(* Strings that the code parses (SEQKIT_THREADS) are sequences of          *)
(* one-character strings.  The cobra methods the code and its template     *)
(* call (AddGroup, AddCommand, Execute, IsAvailableCommand, ...) are       *)
(* modelled by what they do for the fields root.go uses.                   *)
(***************************************************************************)
EXTENDS Integers, Sequences, FiniteSets, TLC

VARIABLES
    pc,              \* "load": package initialisation; "exited"; "render"/"rendered"
    rootInit,        \* root.go's init() has run
    hostCPU,         \* runtime.NumCPU()
    envThreads,      \* os.Getenv("SEQKIT_THREADS"), a sequence of characters
    persistentFlags, \* RootCmd.PersistentFlags(): name -> [short, def]
    completionOff,   \* RootCmd.CompletionOptions.DisableDefaultCmd
    groups,          \* the node's registered groups, in registration order
    commands,        \* the node's direct children, in order
    helpCommand,     \* the node's helpCommand field (NoCommand when nil)
    helpIdx,         \* position of helpCommand among commands, 0 when not a child
    argv,            \* the arguments of this invocation
    outcome,         \* what RootCmd.Execute() did
    stdout,          \* what was written to standard output
    stderr,          \* what was written to standard error
    exitCode,        \* the status the process ends with (0 unless os.Exit or a panic sets it)
    runCount         \* number of subcommand callbacks invoked

vars == <<pc, rootInit, hostCPU, envThreads, persistentFlags, completionOff,
          groups, commands, helpCommand, helpIdx, argv, outcome, stdout,
          stderr, exitCode, runCount>>

----------------------------------------------------------------------------
(* Bounds of the model *)

MaxCPU == 5
MaxEnvLen == 2
MaxChildren == 2
MaxFlags == 2
MaxCmds == 3

----------------------------------------------------------------------------
(* Small helpers *)

Min(a, b) == IF a < b THEN a ELSE b

RECURSIVE SeqsUpTo(_, _)
SeqsUpTo(S, n) ==
    IF n = 0 THEN {<<>>}
    ELSE LET shorter == SeqsUpTo(S, n - 1)
         IN  shorter \cup {Append(s, x) : s \in shorter, x \in S}

RECURSIVE Concat(_)
Concat(ss) == IF ss = <<>> THEN <<>> ELSE Head(ss) \o Concat(Tail(ss))

Indices(s) == 1..Len(s)

NoCommand == [Name |-> "<nil>", GroupID |-> "", Hidden |-> FALSE, LocalFlags |-> {}]
NoArgv == [cmd |-> "", flags |-> <<>>, cb |-> "ok"]
NilErr == [kind |-> "nil", arg |-> ""]
NoOutcome == [panic |-> FALSE, err |-> NilErr, target |-> 0, dispatched |-> FALSE,
              ran |-> FALSE, help |-> FALSE]

----------------------------------------------------------------------------
(* strconv.Atoi on the characters the model draws SEQKIT_THREADS from *)

EnvAlphabet == {"0", "7", "-", "a"}
EnvStrings == SeqsUpTo(EnvAlphabet, MaxEnvLen)

Digits == {"0", "1", "2", "3", "4", "5", "6", "7", "8", "9"}

DigitVal(c) ==
    CASE c = "0" -> 0 [] c = "1" -> 1 [] c = "2" -> 2 [] c = "3" -> 3
      [] c = "4" -> 4 [] c = "5" -> 5 [] c = "6" -> 6 [] c = "7" -> 7
      [] c = "8" -> 8 [] c = "9" -> 9

RECURSIVE DigitsVal(_)
DigitsVal(ds) ==
    IF ds = <<>> THEN 0
    ELSE 10 * DigitsVal(SubSeq(ds, 1, Len(ds) - 1)) + DigitVal(ds[Len(ds)])

\* Atoi(s) = [ok, val]: an optional sign, then one or more decimal digits.
Atoi(s) ==
    LET signed == s # <<>> /\ s[1] \in {"+", "-"}
        body == IF signed THEN Tail(s) ELSE s
    IN  IF body = <<>> \/ \E i \in Indices(body) : body[i] \notin Digits
        THEN [ok |-> FALSE, val |-> 0]
        ELSE [ok |-> TRUE,
              val |-> IF signed /\ s[1] = "-" THEN 0 - DigitsVal(body)
                      ELSE DigitsVal(body)]

ThreadCap == 4

\* Variants of the resolution, each a slip the code could have made.
ResolveRecappingFallback(numCPU, env) ==
    LET capped == IF numCPU > ThreadCap THEN ThreadCap ELSE numCPU
        t == Atoi(env)
        overridden == IF env # <<>> /\ t.ok THEN t.val ELSE capped
    IN  IF overridden < 1 THEN capped ELSE overridden

ResolveIgnoringParseError(numCPU, env) ==
    LET capped == IF numCPU > ThreadCap THEN ThreadCap ELSE numCPU
        t == Atoi(env)
        overridden == IF env # <<>> THEN t.val ELSE capped
    IN  IF overridden < 1 THEN numCPU ELSE overridden

ResolveCappingOverride(numCPU, env) ==
    LET capped == IF numCPU > ThreadCap THEN ThreadCap ELSE numCPU
        t == Atoi(env)
        overridden == IF env # <<>> /\ t.ok THEN Min(t.val, ThreadCap) ELSE capped
    IN  IF overridden < 1 THEN numCPU ELSE overridden

\* defaultThreads as init() computes it
ResolveDefaultThreads(numCPU, env) ==
    LET capped == IF numCPU > ThreadCap THEN ThreadCap ELSE numCPU
        t == Atoi(env)
        overridden == IF env # <<>> /\ t.ok THEN t.val ELSE capped
    IN  IF overridden < 1 THEN numCPU ELSE overridden

----------------------------------------------------------------------------
(* init(): groups, persistent flags, help command *)

RootGroups ==
    << [ID |-> "basic",  Title |-> "Commands for Basic Operation:"],
       [ID |-> "format", Title |-> "Commands for Format Conversion:"],
       [ID |-> "search", Title |-> "Commands for Searching:"],
       [ID |-> "set",    Title |-> "Commands for Set Operation:"],
       [ID |-> "edit",   Title |-> "Commands for Edit:"],
       [ID |-> "order",  Title |-> "Commands for Ordering:"],
       [ID |-> "bam",    Title |-> "Commands for BAM Processing:"],
       [ID |-> "misc",   Title |-> "Commands for Miscellaneous:"] >>

PersistentFlagNames ==
    {"seq-type", "threads", "line-width", "id-regexp", "id-ncbi", "out-file",
     "quiet", "alphabet-guess-seq-length", "infile-list", "compress-level"}

RootPersistentFlags(defaultThreads) ==
    [n \in PersistentFlagNames |->
        CASE n = "seq-type"   -> [short |-> "t", def |-> "auto"]
          [] n = "threads"    -> [short |-> "j", def |-> defaultThreads]
          [] n = "line-width" -> [short |-> "w", def |-> 60]
          [] n = "id-regexp"  -> [short |-> "",  def |-> "fastx.DefaultIDRegexp"]
          [] n = "id-ncbi"    -> [short |-> "",  def |-> FALSE]
          [] n = "out-file"   -> [short |-> "o", def |-> "-"]
          [] n = "quiet"      -> [short |-> "",  def |-> FALSE]
          [] n = "alphabet-guess-seq-length" -> [short |-> "", def |-> 10000]
          [] n = "infile-list" -> [short |-> "X", def |-> ""]
          [] n = "compress-level" -> [short |-> "", def |-> 0 - 1]]

\* &cobra.Command{Hidden: true}: no Use, so its Name() is empty
HelpCmd == [Name |-> "", GroupID |-> "", Hidden |-> TRUE, LocalFlags |-> {}]

InitRoot ==
    /\ pc = "load"
    /\ ~rootInit
    /\ rootInit' = TRUE
    /\ groups' = groups \o RootGroups
    /\ persistentFlags' = RootPersistentFlags(ResolveDefaultThreads(hostCPU, envThreads))
    /\ completionOff' = TRUE
    /\ helpCommand' = HelpCmd
    /\ UNCHANGED <<pc, hostCPU, envThreads, commands, helpIdx, argv, outcome,
                   stdout, stderr, exitCode, runCount>>

----------------------------------------------------------------------------
(* What the usage template asks of a node.  A node is its registered groups
   grps, its children cmds and the position hIdx of its help command among
   them.  Children are runnable, non-deprecated leaf commands, so a child is
   unavailable when it is hidden or is the node's help command. *)

IsAvailableCommand(cmds, hIdx, i) == ~cmds[i].Hidden /\ i # hIdx

HasAvailableSubCommands(cmds, hIdx) ==
    \E i \in Indices(cmds) : IsAvailableCommand(cmds, hIdx, i)

AllChildCommandsHaveGroup(cmds, hIdx) ==
    \A i \in Indices(cmds) :
        ~((IsAvailableCommand(cmds, hIdx, i) \/ i = hIdx) /\ cmds[i].GroupID = "")

\* {{if (or .IsAvailableCommand (eq .Name "help"))}}
Shown(cmds, hIdx, i) == IsAvailableCommand(cmds, hIdx, i) \/ cmds[i].Name = "help"

Line(kind, text, child) == [kind |-> kind, text |-> text, child |-> child]

\* {{range $cmds}}{{if ...}} {{rpad .Name .NamePadding}} {{.Short}}{{end}}{{end}}
\* for the children whose group is in ids
ListCommands(cmds, hIdx, ids) ==
    Concat([i \in Indices(cmds) |->
              IF cmds[i].GroupID \in ids /\ Shown(cmds, hIdx, i)
              THEN <<Line("cmd", cmds[i].Name, i)>>
              ELSE <<>>])

AllGroupIDs(cmds) == {cmds[i].GroupID : i \in Indices(cmds)}

\* Variants of the subcommand block.
SubcommandBlockFlatWhenNoMembers(grps, cmds, hIdx) ==
    IF ~HasAvailableSubCommands(cmds, hIdx) THEN <<>>
    ELSE IF \A g \in Indices(grps) : grps[g].ID \notin AllGroupIDs(cmds)
    THEN <<Line("heading", "Available Commands:", 0)>>
             \o ListCommands(cmds, hIdx, AllGroupIDs(cmds))
    ELSE Concat([g \in Indices(grps) |->
                   <<Line("heading", grps[g].Title, 0)>>
                       \o ListCommands(cmds, hIdx, {grps[g].ID})])
         \o (IF ~AllChildCommandsHaveGroup(cmds, hIdx)
             THEN <<Line("heading", "Additional Commands:", 0)>>
                      \o ListCommands(cmds, hIdx, {""})
             ELSE <<>>)

SubcommandBlockFallbackFirst(grps, cmds, hIdx) ==
    IF ~HasAvailableSubCommands(cmds, hIdx) THEN <<>>
    ELSE IF Len(grps) = 0
    THEN <<Line("heading", "Available Commands:", 0)>>
             \o ListCommands(cmds, hIdx, AllGroupIDs(cmds))
    ELSE (IF ~AllChildCommandsHaveGroup(cmds, hIdx)
          THEN <<Line("heading", "Additional Commands:", 0)>>
                   \o ListCommands(cmds, hIdx, {""})
          ELSE <<>>)
         \o Concat([g \in Indices(grps) |->
                      <<Line("heading", grps[g].Title, 0)>>
                          \o ListCommands(cmds, hIdx, {grps[g].ID})])

SubcommandBlockFallbackTakesUnmatched(grps, cmds, hIdx) ==
    LET registered == {grps[g].ID : g \in Indices(grps)}
    IN  IF ~HasAvailableSubCommands(cmds, hIdx) THEN <<>>
        ELSE IF Len(grps) = 0
        THEN <<Line("heading", "Available Commands:", 0)>>
                 \o ListCommands(cmds, hIdx, AllGroupIDs(cmds))
        ELSE Concat([g \in Indices(grps) |->
                       <<Line("heading", grps[g].Title, 0)>>
                           \o ListCommands(cmds, hIdx, {grps[g].ID})])
             \o (IF ~AllChildCommandsHaveGroup(cmds, hIdx)
                 THEN <<Line("heading", "Additional Commands:", 0)>>
                          \o ListCommands(cmds, hIdx,
                                          AllGroupIDs(cmds) \ registered)
                 ELSE <<>>)

ListAvailableOnly(cmds, hIdx, ids) ==
    Concat([i \in Indices(cmds) |->
              IF cmds[i].GroupID \in ids /\ IsAvailableCommand(cmds, hIdx, i)
              THEN <<Line("cmd", cmds[i].Name, i)>>
              ELSE <<>>])

SubcommandBlockWithoutHelpExemption(grps, cmds, hIdx) ==
    IF ~HasAvailableSubCommands(cmds, hIdx) THEN <<>>
    ELSE IF Len(grps) = 0
    THEN <<Line("heading", "Available Commands:", 0)>>
             \o ListAvailableOnly(cmds, hIdx, AllGroupIDs(cmds))
    ELSE Concat([g \in Indices(grps) |->
                   <<Line("heading", grps[g].Title, 0)>>
                       \o ListAvailableOnly(cmds, hIdx, {grps[g].ID})])
         \o (IF ~AllChildCommandsHaveGroup(cmds, hIdx)
             THEN <<Line("heading", "Additional Commands:", 0)>>
                      \o ListAvailableOnly(cmds, hIdx, {""})
             ELSE <<>>)

\* The template from {{if .HasAvailableSubCommands}}{{$cmds := .Commands}} to
\* the end of the "Additional Commands:" range.
SubcommandBlock(grps, cmds, hIdx) ==
    IF ~HasAvailableSubCommands(cmds, hIdx) THEN <<>>
    ELSE IF Len(grps) = 0
    THEN <<Line("heading", "Available Commands:", 0)>>
             \o ListCommands(cmds, hIdx, AllGroupIDs(cmds))
    ELSE Concat([g \in Indices(grps) |->
                   <<Line("heading", grps[g].Title, 0)>>
                       \o ListCommands(cmds, hIdx, {grps[g].ID})])
         \o (IF ~AllChildCommandsHaveGroup(cmds, hIdx)
             THEN <<Line("heading", "Additional Commands:", 0)>>
                      \o ListCommands(cmds, hIdx, {""})
             ELSE <<>>)

\* The text the template renders for a node: the usage line, the subcommand
\* block and the closing hint.
usageTemplate(grps, cmds, hIdx) ==
    <<Line("usage", "Usage:", 0)>>
        \o SubcommandBlock(grps, cmds, hIdx)
        \o (IF HasAvailableSubCommands(cmds, hIdx)
            THEN <<Line("hint", "Use \"[command] --help\" for more information about a command.", 0)>>
            ELSE <<>>)

NoFlags == [n \in {} |-> 0]

InitCommon ==
    /\ rootInit = FALSE
    /\ persistentFlags = NoFlags
    /\ completionOff = FALSE
    /\ groups = <<>>
    /\ commands = <<>>
    /\ helpCommand = NoCommand
    /\ helpIdx = 0
    /\ argv = NoArgv
    /\ outcome = NoOutcome
    /\ stdout = <<>>
    /\ stderr = <<>>
    /\ exitCode = 0
    /\ runCount = 0

InitThreads ==
    /\ pc = "load"
    /\ hostCPU \in 1..MaxCPU
    /\ envThreads \in EnvStrings
    /\ InitCommon

NextThreads == InitRoot

----------------------------------------------------------------------------
(* The subcommands.  Each is attached by the init() of its own file with
   RootCmd.AddCommand; cobra appends it and checks nothing. *)

ChildCandidates ==
    { [Name |-> "seq",     GroupID |-> "basic",  Hidden |-> FALSE, LocalFlags |-> {"only-id"}],
      [Name |-> "grep",    GroupID |-> "search", Hidden |-> FALSE, LocalFlags |-> {"pattern"}],
      [Name |-> "version", GroupID |-> "",       Hidden |-> FALSE, LocalFlags |-> {}],
      [Name |-> "mystery", GroupID |-> "nogrp",  Hidden |-> FALSE, LocalFlags |-> {}] }

AddCommand ==
    /\ pc = "load"
    /\ Len(commands) < MaxChildren
    /\ \E c \in ChildCandidates : commands' = Append(commands, c)
    /\ UNCHANGED <<pc, rootInit, hostCPU, envThreads, persistentFlags,
                   completionOff, groups, helpCommand, helpIdx, argv, outcome,
                   stdout, stderr, exitCode, runCount>>

----------------------------------------------------------------------------
(* RootCmd.Execute() *)

CommandNames == {"", "seq", "grep", "nosuch"}
FlagTokens == {"threads", "only-id", "no-such-flag", "help"}
Argvs == [cmd : CommandNames, flags : SeqsUpTo(FlagTokens, MaxFlags), cb : {"ok", "fail"}]

ContainsGroup(grps, id) == \E g \in Indices(grps) : grps[g].ID = id

\* Variant: no check of the children's groups.
CheckCommandGroupsNever(grps, cmds) == FALSE

\* checkCommandGroups panics when a child names a group that is not registered
CheckCommandGroupsPanics(grps, cmds) ==
    \E i \in Indices(cmds) :
        cmds[i].GroupID # "" /\ ~ContainsGroup(grps, cmds[i].GroupID)

\* Find: the first child with the name, 0 for the root, -1 for no such command
Find(cmds, name) ==
    IF name = "" \/ cmds = <<>> THEN 0
    ELSE IF \E i \in Indices(cmds) : cmds[i].Name = name
    THEN CHOOSE i \in Indices(cmds) :
            /\ cmds[i].Name = name
            /\ \A j \in 1..(i - 1) : cmds[j].Name # name
    ELSE 0 - 1

\* Variant: unknown flags are skipped.
ParseFlagsLenient(pflags, local, flags) == NilErr

\* ParseFlags: the first flag that is neither persistent, local nor --help
ParseFlags(pflags, local, flags) ==
    LET known == (DOMAIN pflags) \cup local \cup {"help"}
    IN  IF \E k \in Indices(flags) : flags[k] \notin known
        THEN LET k == CHOOSE k \in Indices(flags) :
                        /\ flags[k] \notin known
                        /\ \A j \in 1..(k - 1) : flags[j] \in known
             IN  [kind |-> "unknown flag", arg |-> flags[k]]
        ELSE NilErr

\* ExecuteC on the root, after the help command has been added to cmds
ExecuteC(grps, cmds, pflags, av) ==
    LET target == Find(cmds, av.cmd)
        local == IF target > 0 THEN cmds[target].LocalFlags ELSE {}
        ferr == ParseFlags(pflags, local, av.flags)
        base == [panic |-> FALSE, err |-> NilErr, target |-> target,
                 dispatched |-> TRUE, ran |-> FALSE, help |-> FALSE]
    IN  IF CheckCommandGroupsPanics(grps, cmds)
        THEN [NoOutcome EXCEPT !.panic = TRUE]
        ELSE IF target < 0
        THEN [base EXCEPT !.err = [kind |-> "unknown command", arg |-> av.cmd],
                          !.target = 0]
        ELSE IF ferr # NilErr
        THEN [base EXCEPT !.err = ferr]
        ELSE IF \E k \in Indices(av.flags) : av.flags[k] = "help"
        THEN [base EXCEPT !.help = TRUE]
        ELSE IF target = 0
        THEN [base EXCEPT !.help = TRUE]
        ELSE IF av.cb = "fail"
        THEN [base EXCEPT !.ran = TRUE, !.err = [kind |-> "callback", arg |-> av.cmd]]
        ELSE [base EXCEPT !.ran = TRUE]

Written(by, err, text) == [by |-> by, err |-> err, text |-> text]

\* the help or usage text of the command r.target
UsageOf(grps, cmds, hIdx, target) ==
    IF target = 0 THEN usageTemplate(grps, cmds, hIdx)
    ELSE usageTemplate(<<>>, <<>>, 0)

ExitOnError == 0 - 1
ExitOnPanic == 2

\* Variants of what Execute does with the returned error.
ReportToStderr(err) ==
    IF err # NilErr
    THEN [out |-> <<>>, errOut |-> <<Written("Execute", err, <<>>)>>, code |-> ExitOnError]
    ELSE [out |-> <<>>, errOut |-> <<>>, code |-> 0]

\* if err != nil { fmt.Println(err); os.Exit(-1) }
Report(err) ==
    IF err # NilErr
    THEN [out |-> <<Written("Execute", err, <<>>)>>, errOut |-> <<>>, code |-> ExitOnError]
    ELSE [out |-> <<>>, errOut |-> <<>>, code |-> 0]

Execute ==
    /\ pc = "load"
    /\ rootInit
    /\ \E av \in Argvs :
         LET withHelp == commands # <<>>
             cmds == IF withHelp THEN Append(commands, helpCommand) ELSE commands
             hIdx == IF withHelp THEN Len(cmds) ELSE 0
             r == ExecuteC(groups, cmds, persistentFlags, av)
             rep == Report(r.err)
             usage == UsageOf(groups, cmds, hIdx, r.target)
         IN  /\ commands' = cmds
             /\ helpIdx' = hIdx
             /\ argv' = av
             /\ outcome' = r
             /\ runCount' = runCount + (IF r.ran THEN 1 ELSE 0)
             /\ stdout' = stdout
                    \o (IF r.help THEN <<Written("help", NilErr, usage)>> ELSE <<>>)
                    \o rep.out
             /\ stderr' = stderr
                    \o (IF r.panic THEN <<Written("panic", NilErr, <<>>)>> ELSE <<>>)
                    \o (IF r.err # NilErr
                        THEN <<Written("cobra", r.err,
                                       IF r.err.kind = "unknown command"
                                       THEN <<Line("hint", "Run --help for usage.", 0)>>
                                       ELSE usage)>>
                        ELSE <<>>)
                    \o rep.errOut
             /\ exitCode' = IF r.panic THEN ExitOnPanic ELSE rep.code
    /\ pc' = "exited"
    /\ UNCHANGED <<rootInit, hostCPU, envThreads, persistentFlags, completionOff,
                   groups, helpCommand>>

Init ==
    /\ pc = "load"
    /\ hostCPU \in {1, MaxCPU}
    /\ envThreads \in {<<>>, <<"0">>, <<"7">>}
    /\ InitCommon

Next == InitRoot \/ AddCommand \/ Execute

Spec == Init /\ [][Next]_vars

----------------------------------------------------------------------------
(* The template applied to any node *)

NodeGroups ==
    { <<>>,
      <<RootGroups[1]>>,
      <<RootGroups[3], RootGroups[1]>> }

\* children of a node: a command in any group (one registered nowhere
\* included), shown or hidden, and a command named "help"
NodeChildren ==
    [Name : {"seq"}, GroupID : {"", "basic", "search", "nogrp"},
     Hidden : BOOLEAN, LocalFlags : {{}}]
    \cup [Name : {"help"}, GroupID : {"", "basic", "nogrp"},
          Hidden : {TRUE}, LocalFlags : {{}}]
    \cup [Name : {"help"}, GroupID : {""}, Hidden : {FALSE}, LocalFlags : {{}}]

InitRender ==
    /\ pc = "render"
    /\ hostCPU = 1
    /\ envThreads = <<>>
    /\ rootInit = FALSE
    /\ persistentFlags = NoFlags
    /\ completionOff = FALSE
    /\ groups \in NodeGroups
    /\ \E cs \in SeqsUpTo(NodeChildren, MaxCmds) :
         \E h \in {0, Len(cs), Len(cs) + 1} :
            /\ commands = IF h = Len(cs) + 1 THEN Append(cs, HelpCmd) ELSE cs
            /\ helpIdx = h
            /\ helpCommand = IF h = 0 THEN NoCommand
                             ELSE IF h = Len(cs) + 1 THEN HelpCmd ELSE cs[h]
    /\ argv = NoArgv
    /\ outcome = NoOutcome
    /\ stdout = <<>>
    /\ stderr = <<>>
    /\ exitCode = 0
    /\ runCount = 0

Render ==
    /\ pc = "render"
    /\ stdout' = <<Written("help", NilErr, usageTemplate(groups, commands, helpIdx))>>
    /\ pc' = "rendered"
    /\ UNCHANGED <<rootInit, hostCPU, envThreads, persistentFlags, completionOff,
                   groups, commands, helpCommand, helpIdx, argv, outcome, stderr,
                   exitCode, runCount>>

NextRender == Render

SpecRender == InitRender /\ [][NextRender]_vars

SpecThreads == InitThreads /\ [][NextThreads]_vars

----------------------------------------------------------------------------
(* Default thread count *)

DefaultThreads == persistentFlags["threads"].def

\* SEQKIT_THREADS read as a decimal integer, by the grammar rather than by Atoi
IsDecimal(s) ==
    /\ s # <<>>
    /\ \/ \A i \in Indices(s) : s[i] \in Digits
       \/ /\ Len(s) > 1
          /\ s[1] \in {"+", "-"}
          /\ \A i \in 2..Len(s) : s[i] \in Digits

RECURSIVE Magnitude(_, _)
Magnitude(s, acc) ==
    IF s = <<>> THEN acc
    ELSE Magnitude(Tail(s), IF Head(s) \in Digits THEN 10 * acc + DigitVal(Head(s)) ELSE acc)

DecimalValue(s) == IF s[1] = "-" THEN 0 - Magnitude(s, 0) ELSE Magnitude(s, 0)

StartupClean ==
    pc = "load" /\ exitCode = 0 /\ stdout = <<>> /\ stderr = <<>>

\* C1: when SEQKIT_THREADS parses as an integer below 1, the default of
\* --threads is the host CPU count itself, not the count capped at 4.
C1_OverrideBelowOneGivesHostCPU ==
    (rootInit /\ IsDecimal(envThreads) /\ DecimalValue(envThreads) < 1)
        => DefaultThreads = hostCPU

C1_Witness ==
    /\ rootInit
    /\ IsDecimal(envThreads) /\ DecimalValue(envThreads) < 1
    /\ hostCPU > ThreadCap
    /\ DefaultThreads = hostCPU

\* C2: when SEQKIT_THREADS is empty or is no decimal integer, the default of
\* --threads is min(host CPU count, 4) and initialisation completes without
\* an error, an exit or any output.
C2_NoUsableOverrideGivesCappedCPU ==
    (rootInit /\ pc = "load" /\ ~IsDecimal(envThreads))
        => (DefaultThreads = Min(hostCPU, 4) /\ StartupClean)

C2_Witness ==
    /\ rootInit
    /\ envThreads # <<>> /\ ~IsDecimal(envThreads)
    /\ hostCPU > ThreadCap
    /\ DefaultThreads = 4
    /\ StartupClean

\* C3: when SEQKIT_THREADS parses as an integer v >= 1, the default of
\* --threads is v, whatever the cap and the host CPU count are.
C3_ValidOverrideIsHonoured ==
    (rootInit /\ IsDecimal(envThreads) /\ DecimalValue(envThreads) >= 1)
        => DefaultThreads = DecimalValue(envThreads)

C3_Witness ==
    /\ rootInit
    /\ IsDecimal(envThreads)
    /\ DecimalValue(envThreads) > ThreadCap
    /\ DecimalValue(envThreads) > hostCPU
    /\ DefaultThreads = DecimalValue(envThreads)

----------------------------------------------------------------------------
(* Execute and dispatch *)

RECURSIVE WrittenBy(_, _)
WrittenBy(stream, who) ==
    IF stream = <<>> THEN <<>>
    ELSE (IF Head(stream).by = who THEN <<Head(stream).err>> ELSE <<>>)
             \o WrittenBy(Tail(stream), who)

ObservedStatus(code) == code % 256

Registered(id) == \E g \in Indices(groups) : groups[g].ID = id

DanglingGroup ==
    \E i \in Indices(commands) :
        commands[i].GroupID # "" /\ ~Registered(commands[i].GroupID)

\* C4: when RootCmd.Execute() returns an error, Execute prints it once to
\* standard output, nothing to standard error, and exits with -1 (a non-zero
\* status); when it returns none, Execute prints nothing and the status is 0.
\* No callback runs twice.
C4_EntrypointOutcome ==
    (pc = "exited" /\ ~outcome.panic) =>
        /\ runCount <= 1
        /\ WrittenBy(stderr, "Execute") = <<>>
        /\ IF outcome.err # NilErr
           THEN /\ WrittenBy(stdout, "Execute") = <<outcome.err>>
                /\ exitCode = 0 - 1
                /\ ObservedStatus(exitCode) # 0
           ELSE /\ WrittenBy(stdout, "Execute") = <<>>
                /\ exitCode = 0

C4_Witness ==
    /\ pc = "exited"
    /\ outcome.err.kind = "callback"
    /\ runCount = 1
    /\ WrittenBy(stdout, "Execute") = <<outcome.err>>
    /\ ObservedStatus(exitCode) = 255

\* the flags of the invocation that neither the root declares as persistent
\* nor the command named on the command line declares (or is given) locally
UnrecognizedFlags ==
    LET local == UNION {commands[i].LocalFlags :
                          i \in {j \in Indices(commands) : commands[j].Name = argv.cmd}}
    IN  {argv.flags[k] : k \in Indices(argv.flags)}
            \ (PersistentFlagNames \cup local \cup {"help"})

\* C5: an invocation with an unrecognized flag ends with a non-zero status
\* and no subcommand callback has been invoked.
C5_UnrecognizedFlagFails ==
    (pc = "exited" /\ UnrecognizedFlags # {}) =>
        /\ ObservedStatus(exitCode) # 0
        /\ runCount = 0
        /\ ~outcome.ran

C5_Witness ==
    /\ pc = "exited"
    /\ ~outcome.panic
    /\ argv.cmd = "seq"
    /\ outcome.target > 0
    /\ argv.flags = <<"threads", "no-such-flag">>
    /\ outcome.err = [kind |-> "unknown flag", arg |-> "no-such-flag"]
    /\ exitCode = 0 - 1
    /\ runCount = 0

\* C7: a tree in which some command names an unregistered group makes the
\* process abort (a panic, non-zero status) before anything is dispatched or
\* run; whenever a command is dispatched, every command's group is empty or
\* registered.
C7_GroupReferentialIntegrity ==
    pc = "exited" =>
        /\ DanglingGroup =>
              /\ outcome.panic
              /\ ~outcome.dispatched
              /\ runCount = 0
              /\ stdout = <<>>
              /\ ObservedStatus(exitCode) # 0
        /\ outcome.dispatched =>
              \A i \in Indices(commands) :
                  commands[i].GroupID = "" \/ Registered(commands[i].GroupID)

C7_Witness ==
    /\ pc = "exited"
    /\ DanglingGroup
    /\ argv = [cmd |-> "seq", flags |-> <<>>, cb |-> "ok"]
    /\ \E i \in Indices(commands) : commands[i].Name = "seq"
    /\ outcome.panic
    /\ runCount = 0
    /\ exitCode = 2

----------------------------------------------------------------------------
(* Rendered help, read back from the text *)

Rendered == pc = "rendered"

HelpText == stdout[1].text

\* The subcommand sections of a text: each heading with the children listed
\* under it, in the order printed.
RECURSIVE ParseSections(_, _)
ParseSections(text, acc) ==
    IF text = <<>> THEN acc
    ELSE LET l == Head(text)
             n == Len(acc)
         IN  ParseSections(Tail(text),
                 IF l.kind = "heading"
                 THEN Append(acc, [title |-> l.text, list |-> <<>>])
                 ELSE IF l.kind = "cmd" /\ n > 0
                 THEN [acc EXCEPT ![n].list = Append(@, l.child)]
                 ELSE IF l.kind = "cmd"
                 THEN <<[title |-> "", list |-> <<l.child>>]>>
                 ELSE acc)

TitlesIn(secs) == [t \in Indices(secs) |-> secs[t].title]

\* children listed under the n-th section
ListedIn(secs, n) == {secs[n].list[p] : p \in Indices(secs[n].list)}

\* where child i is listed: <<section, position>>
LinesOf(secs, i) ==
    {<<t, p>> \in UNION {{t} \X Indices(secs[t].list) : t \in Indices(secs)} :
        secs[t].list[p] = i}

\* the titles of the sections child i is listed under
SectionsOf(secs, i) == {secs[l[1]].title : l \in LinesOf(secs, i)}

Available(i) == ~commands[i].Hidden /\ i # helpIdx
Listable(i) == Available(i) \/ commands[i].Name = "help"
SomeAvailable == \E i \in Indices(commands) : Available(i)
Grouped == Len(groups) > 0
GroupTitles == [g \in Indices(groups) |-> groups[g].Title]
Fallback == "Additional Commands:"
Flat == "Available Commands:"

\* C6: with registered groups, help prints one section per group in
\* registration order, each listing exactly the listable children of that
\* group; children without a group are printed only in the last section,
\* headed "Additional Commands:", and every available one is printed there.
C6_GroupedSections ==
    (Rendered /\ Grouped /\ SomeAvailable) =>
        LET secs == ParseSections(HelpText, <<>>)
        IN  /\ TitlesIn(secs) \in {GroupTitles, Append(GroupTitles, Fallback)}
            /\ \A g \in Indices(groups) :
                  ListedIn(secs, g) =
                      {i \in Indices(commands) :
                          commands[i].GroupID = groups[g].ID /\ Listable(i)}
            /\ \A i \in Indices(commands) :
                  commands[i].GroupID = "" =>
                      /\ \A l \in LinesOf(secs, i) :
                            l[1] = Len(secs) /\ secs[l[1]].title = Fallback
                      /\ Available(i) => Cardinality(LinesOf(secs, i)) = 1

C6_Witness ==
    /\ Rendered
    /\ Len(groups) = 2
    /\ Len(commands) = 3
    /\ \A i \in Indices(commands) : Available(i)
    /\ commands[1].GroupID = groups[2].ID
    /\ commands[2].GroupID = ""
    /\ commands[3].GroupID = groups[1].ID
    /\ LET secs == ParseSections(HelpText, <<>>)
       IN  /\ TitlesIn(secs) = Append(GroupTitles, Fallback)
           /\ ListedIn(secs, 1) = {3}
           /\ ListedIn(secs, 2) = {1}
           /\ ListedIn(secs, 3) = {2}

Unmatched(i) == commands[i].GroupID # "" /\ ~Registered(commands[i].GroupID)

NoGroupHasMember ==
    \A g \in Indices(groups) : \A i \in Indices(commands) :
        commands[i].GroupID # groups[g].ID

\* C9 as claimed: when no group has a member among the children, the
\* listable children are printed flatly under "Available Commands:" alone.
C9_FlatWhenNoGroupHasMember ==
    (Rendered /\ SomeAvailable /\ NoGroupHasMember) =>
        LET secs == ParseSections(HelpText, <<>>)
        IN  /\ TitlesIn(secs) = <<Flat>>
            /\ ListedIn(secs, 1) = {i \in Indices(commands) : Listable(i)}

\* C9 as amended: the flat layout is used exactly when the node has no
\* registered group; a node with registered groups gets the grouped layout
\* (every group title, in order) even when no child is a member of any.
C9_FlatIffNoRegisteredGroup ==
    (Rendered /\ SomeAvailable) =>
        LET secs == ParseSections(HelpText, <<>>)
        IN  IF Len(groups) = 0
            THEN /\ TitlesIn(secs) = <<Flat>>
                 /\ ListedIn(secs, 1) = {i \in Indices(commands) : Listable(i)}
            ELSE /\ SubSeq(TitlesIn(secs), 1, Len(groups)) = GroupTitles
                 /\ \A t \in Indices(secs) : secs[t].title # Flat

C9_Witness ==
    /\ Rendered
    /\ SomeAvailable
    /\ Grouped
    /\ NoGroupHasMember
    /\ LET secs == ParseSections(HelpText, <<>>)
       IN  /\ TitlesIn(secs) = Append(GroupTitles, Fallback)
           /\ \A g \in Indices(groups) : ListedIn(secs, g) = {}
           /\ ListedIn(secs, Len(secs)) # {}

\* the group condition of the section with this title
InSectionGroup(title, i) ==
    IF title = Flat THEN TRUE
    ELSE IF title = Fallback THEN commands[i].GroupID = ""
    ELSE \E g \in Indices(groups) :
            groups[g].Title = title /\ groups[g].ID = commands[i].GroupID

SectionFilter(secs) ==
    \A t \in Indices(secs) :
        ListedIn(secs, t) =
            {i \in Indices(commands) : InSectionGroup(secs[t].title, i) /\ Listable(i)}

\* C10 as claimed: every section lists exactly the children of its group
\* that are available or named "help", and a child named "help" is always
\* listed.
C10_HelpAlwaysListed ==
    Rendered =>
        LET secs == ParseSections(HelpText, <<>>)
        IN  /\ SectionFilter(secs)
            /\ \A i \in Indices(commands) :
                  commands[i].Name = "help" => LinesOf(secs, i) # {}

\* C10 as amended: every printed section lists exactly the children of its
\* group that are available or named "help"; the node's help command is
\* listed only if it is named "help"; a child named "help" is listed exactly
\* when a section for its group is printed: some child is available, and
\* the layout is flat, or its group is registered, or its group is empty and
\* "Additional Commands:" is printed.
C10_ListingFilter ==
    Rendered =>
        LET secs == ParseSections(HelpText, <<>>)
        IN  /\ SectionFilter(secs)
            /\ \A i \in Indices(commands) :
                  /\ LinesOf(secs, i) # {} => Listable(i)
                  /\ (i = helpIdx /\ commands[i].Name # "help") => LinesOf(secs, i) = {}
                  /\ commands[i].Name = "help" =>
                        (LinesOf(secs, i) # {} <=>
                            /\ SomeAvailable
                            /\ \/ ~Grouped
                               \/ Registered(commands[i].GroupID)
                               \/ /\ commands[i].GroupID = ""
                                  /\ \E t \in Indices(secs) : secs[t].title = Fallback)

C10_Witness ==
    /\ Rendered
    /\ Grouped
    /\ helpIdx > 0
    /\ commands[helpIdx] = HelpCmd
    /\ LET secs == ParseSections(HelpText, <<>>)
       IN  /\ \E i \in Indices(commands) :
                 /\ commands[i].Name = "help" /\ commands[i].Hidden
                 /\ Cardinality(LinesOf(secs, i)) = 1
           /\ LinesOf(secs, helpIdx) = {}
           /\ \E i \in Indices(commands) :
                 commands[i].Hidden /\ commands[i].Name = "seq" /\ LinesOf(secs, i) = {}

====
